---- MODULE Spec2Model ----
(***************************************************************************)
(* Model of helper_cli.py: the Decks object (infection decks, discard     *)
(* pile, card colours) and its mutation operations.                        *)
(***************************************************************************)
EXTENDS Integers, Sequences, FiniteSets, TLC

VARIABLES
    infection_deck,   \* Decks.infection_deck: sequence of decks, topmost first
    discard_pile,     \* Decks.discard_pile: sequence of cards
    card_to_color,    \* Decks.card_to_color: function card -> colour
    op,               \* name of the last method called on the object
    arg,              \* arguments of the last call, as a sequence
    err,              \* "ok", or the exception the last call raised
    pre,              \* the object just before the last call
    state_file,       \* contents of STATE_FILE_NAME, the working snapshot
    save_file,        \* contents of SAVE_FILE_NAME
    out,              \* what the last command printed
    before,           \* the two files just before the last command
    checkpoint        \* <<working state>> at the last save command, <<>> before it

vars == <<infection_deck, discard_pile, card_to_color, op, arg, err, pre,
          state_file, save_file, out, before, checkpoint>>

----------------------------------------------------------------------------
(* Bounds and input sets *)

MaxCards == 3        \* most cards held by decks and discard together
MaxInitDecks == 2    \* most decks in a loaded snapshot
MaxCmdCards == 1     \* most cards in the working snapshot of the command line
MaxArgs == 2         \* most card arguments of one command
MaxPrintLen == 6     \* longest card sequence given to the summary

\* card identifiers, listed in ascending (Python str) order
CardOrder == <<"a", "atlanta", "b", "c", "chicago", "epidemic">>

Cards == {"atlanta", "chicago", "epidemic"}

\* the cards of the summary example
PrintCards == {"a", "b", "c"}

Colors == {"red", "yellow"}

----------------------------------------------------------------------------
(* Python list and string primitives *)

Rank(c) == CHOOSE i \in 1..Len(CardOrder) : CardOrder[i] = c

\* str.__lt__ on card identifiers
StrLess(a, b) == Rank(a) < Rank(b)

\* x in lis
Contains(lis, x) == \E i \in 1..Len(lis) : lis[i] = x

\* index of the first occurrence of x in lis (x occurs in lis)
IndexOf(lis, x) == CHOOSE i \in 1..Len(lis) : lis[i] = x /\ \A j \in 1..(i-1) : lis[j] # x

\* index of the last occurrence of x in lis
LastIndexOf(lis, x) == CHOOSE i \in 1..Len(lis) : lis[i] = x /\ \A j \in (i+1)..Len(lis) : lis[j] # x

DropAt(lis, i) == SubSeq(lis, 1, i-1) \o SubSeq(lis, i+1, Len(lis))

ListRemoveLast(lis, x) == DropAt(lis, LastIndexOf(lis, x))

\* lis.remove(x), for x in lis: drops the first occurrence
ListRemove(lis, x) == DropAt(lis, IndexOf(lis, x))

\* lis.insert(0, x)
ListInsertFront(lis, x) == <<x>> \o lis

ListInsertBack(lis, x) == lis \o <<x>>

\* lis.pop(0), list half
ListPopFront(lis) == Tail(lis)

\* insert x into the sorted sequence lis, after the elements not greater than x
RECURSIVE InsertSorted(_, _)
InsertSorted(lis, x) ==
    IF lis = <<>> THEN <<x>>
    ELSE IF StrLess(x, Head(lis)) THEN <<x>> \o lis
    ELSE <<Head(lis)>> \o InsertSorted(Tail(lis), x)

RECURSIVE SortFrom(_, _)
SortFrom(acc, lis) ==
    IF lis = <<>> THEN acc ELSE SortFrom(InsertSorted(acc, Head(lis)), Tail(lis))

ListSortNone(lis) == lis

\* lis.sort(): stable ascending sort
ListSort(lis) == SortFrom(<<>>, lis)

----------------------------------------------------------------------------
(* The Decks object as a value, and its methods as functions on that value.
   Each method yields the object after the call and "ok", or the unchanged
   object and the name of the exception raised. *)

\* Decks.__init__
Decks(infection, discard, colors) ==
    [infection_deck |-> infection, discard_pile |-> discard, card_to_color |-> colors]

Ok(d) == [decks |-> d, err |-> "ok"]

Raise(d, e) == [decks |-> d, err |-> e]

\* a draw that leaves an emptied topmost deck in place
draw_keep_empty(d, card) ==
    IF Len(d.infection_deck) = 0 THEN Raise(d, "IndexError")
    ELSE
        LET top == d.infection_deck[1]
            infection ==
                IF Contains(top, card)
                THEN <<ListRemove(top, card)>> \o Tail(d.infection_deck)
                ELSE d.infection_deck
        IN  Ok(Decks(infection, ListSort(Append(d.discard_pile, card)), d.card_to_color))

\* a draw that drops the topmost deck whenever it is empty, found or not
draw_pop_any_empty(d, card) ==
    IF Len(d.infection_deck) = 0 THEN Raise(d, "IndexError")
    ELSE
        LET top == d.infection_deck[1]
            removed == IF Contains(top, card) THEN ListRemove(top, card) ELSE top
            infection ==
                IF removed = <<>> THEN ListPopFront(d.infection_deck)
                ELSE <<removed>> \o Tail(d.infection_deck)
        IN  Ok(Decks(infection, ListSort(Append(d.discard_pile, card)), d.card_to_color))

\* a draw that discards the card only when it was in the topmost deck
draw_discard_if_found(d, card) ==
    IF Len(d.infection_deck) = 0 THEN Raise(d, "IndexError")
    ELSE
        LET top == d.infection_deck[1]
        IN  IF Contains(top, card)
            THEN LET removed == ListRemove(top, card)
                     infection ==
                        IF removed = <<>> THEN ListPopFront(d.infection_deck)
                        ELSE <<removed>> \o Tail(d.infection_deck)
                 IN  Ok(Decks(infection, ListSort(Append(d.discard_pile, card)),
                              d.card_to_color))
            ELSE Ok(d)

\* a draw that drops the colour of the card it draws
draw_forget_color(d, card) ==
    IF Len(d.infection_deck) = 0 THEN Raise(d, "IndexError")
    ELSE
        LET top == d.infection_deck[1]
            infection ==
                IF Contains(top, card)
                THEN LET removed == ListRemove(top, card)
                     IN  IF removed = <<>>
                         THEN ListPopFront(d.infection_deck)
                         ELSE <<removed>> \o Tail(d.infection_deck)
                ELSE d.infection_deck
        IN  Ok(Decks(infection, ListSort(Append(d.discard_pile, card)),
                     [x \in (DOMAIN d.card_to_color) \ {card} |-> d.card_to_color[x]]))

\* Decks.draw
draw(d, card) ==
    IF Len(d.infection_deck) = 0
    THEN Raise(d, "IndexError")                    \* self.infection_deck[0]
    ELSE
        LET top == d.infection_deck[1]
            infection ==
                IF Contains(top, card)
                THEN LET removed == ListRemove(top, card)
                     IN  IF removed = <<>>
                         THEN ListPopFront(d.infection_deck)
                         ELSE <<removed>> \o Tail(d.infection_deck)
                ELSE d.infection_deck
        IN  Ok(Decks(infection, ListSort(Append(d.discard_pile, card)), d.card_to_color))

\* a reshuffle without the emptiness test
reshuffle_discard_unguarded(d) ==
    Ok(Decks(ListInsertFront(d.infection_deck, d.discard_pile), <<>>, d.card_to_color))

\* a reshuffle that puts the new deck below the others
reshuffle_discard_bottom(d) ==
    IF Len(d.discard_pile) > 0
    THEN Ok(Decks(ListInsertBack(d.infection_deck, d.discard_pile), <<>>, d.card_to_color))
    ELSE Ok(d)

\* Decks.reshuffle_discard
reshuffle_discard(d) ==
    IF Len(d.discard_pile) > 0
    THEN Ok(Decks(ListInsertFront(d.infection_deck, d.discard_pile), <<>>, d.card_to_color))
    ELSE Ok(d)

\* a removal that hands the card back to the topmost deck
remove_discard_to_deck(d, card) ==
    IF Contains(d.discard_pile, card)
    THEN Ok(Decks(IF Len(d.infection_deck) = 0 THEN <<<<card>>>>
                  ELSE <<Append(d.infection_deck[1], card)>> \o Tail(d.infection_deck),
                  ListRemove(d.discard_pile, card), d.card_to_color))
    ELSE Ok(d)

\* Decks.remove_discard
remove_discard(d, card) ==
    IF Contains(d.discard_pile, card)
    THEN Ok(Decks(d.infection_deck, ListRemove(d.discard_pile, card), d.card_to_color))
    ELSE Ok(d)

\* dict item assignment: m[k] = v
DictSet(m, k, v) == [x \in (DOMAIN m) \cup {k} |-> IF x = k THEN v ELSE m[x]]

\* del m[k], for k in m
DictDel(m, k) == [x \in (DOMAIN m) \ {k} |-> m[x]]

\* Decks.mark_card
mark_card(d, card, color) ==
    Ok(Decks(d.infection_deck, d.discard_pile, DictSet(d.card_to_color, card, color)))

\* an unmark that ignores a card without annotation
unmark_card_silent(d, card) ==
    Ok(Decks(d.infection_deck, d.discard_pile, DictDel(d.card_to_color, card)))

\* Decks.unmark_card
unmark_card(d, card) ==
    IF card \in DOMAIN d.card_to_color
    THEN Ok(Decks(d.infection_deck, d.discard_pile, DictDel(d.card_to_color, card)))
    ELSE Raise(d, "KeyError")

----------------------------------------------------------------------------
(* Snapshots and Decks.load *)

EmptyDict == [x \in {} |-> ""]

\* a snapshot file: absent, or holding a JSON object, or text that is no JSON
NoFile == [exists |-> FALSE, malformed |-> FALSE, obj |-> EmptyDict]

File(obj) == [exists |-> TRUE, malformed |-> FALSE, obj |-> obj]

BadFile == [exists |-> TRUE, malformed |-> TRUE, obj |-> EmptyDict]

\* dict.get(key, default)
DictGet(m, key, default) == IF key \in DOMAIN m THEN m[key] ELSE default

\* Decks.load: the object read from a file, each absent field defaulted
load(file) ==
    LET obj == IF file.exists THEN file.obj ELSE EmptyDict   \* FileNotFoundError
    IN  Decks(DictGet(obj, "infection", <<<<>>>>),
              DictGet(obj, "discard", <<>>),
              DictGet(obj, "card_to_color", EmptyDict))

SnapshotKeys == {"infection", "discard", "card_to_color"}

SeqsUpTo(S, n) == UNION {[1..k -> S] : k \in 0..n}

\* the JSON object with the fields named in keys
SnapshotObj(keys, infection, discard, colors) ==
    [k \in keys |-> CASE k = "infection" -> infection
                      [] k = "discard" -> discard
                      [] OTHER -> colors]

\* cards that get annotated, and the colour maps a snapshot may hold
MarkCards == {"atlanta"}

SnapshotColors == {EmptyDict, [c \in {"chicago"} |-> "yellow"]}

\* the nondecreasing positions at which a sequence of length len is cut into n decks
Cuts(n, len) == {c \in [1..n -> 0..len] : \A i \in 1..(n-1) : c[i] <= c[i+1]}

\* the decks cut from cards at the positions cuts
CutDecks(cards, cuts) ==
    [i \in 1..Len(cuts) |-> SubSeq(cards, (IF i = 1 THEN 0 ELSE cuts[i-1]) + 1, cuts[i])]

\* what is left of cards behind the last cut
CutRest(cards, cuts) ==
    SubSeq(cards, (IF cuts = <<>> THEN 0 ELSE cuts[Len(cuts)]) + 1, Len(cards))

\* the snapshots that hold the sequence cards, cut into decks and discard pile
SnapshotsOf(cards) ==
    {File(SnapshotObj(keys, CutDecks(cards, cuts), CutRest(cards, cuts), colors)) :
        keys \in SUBSET SnapshotKeys,
        cuts \in UNION {Cuts(n, Len(cards)) : n \in 0..MaxInitDecks},
        colors \in SnapshotColors}

\* the snapshot files the object is loaded from: any cards in any order, in
\* any decks (empty ones too) and discard pile, with any of the fields absent
Snapshots ==
    {NoFile} \cup UNION {SnapshotsOf(cards) : cards \in SeqsUpTo(Cards, MaxCards)}

----------------------------------------------------------------------------
(* The state machine: one Decks object and the calls made on it *)

\* the object as it is now
Cur == Decks(infection_deck, discard_pile, card_to_color)

RECURSIVE SumLen(_)
SumLen(lists) == IF lists = <<>> THEN 0 ELSE Len(Head(lists)) + SumLen(Tail(lists))

NumCards(d) == SumLen(d.infection_deck) + Len(d.discard_pile)

\* the object becomes r.decks; the call, its outcome and the object before it are recorded
Call(name, args, r) ==
    /\ infection_deck' = r.decks.infection_deck
    /\ discard_pile' = r.decks.discard_pile
    /\ card_to_color' = r.decks.card_to_color
    /\ op' = name
    /\ arg' = args
    /\ err' = r.err
    /\ pre' = Cur
    /\ UNCHANGED <<state_file, save_file, out, before, checkpoint>>

Loaded(file) ==
    /\ infection_deck = load(file).infection_deck
    /\ discard_pile = load(file).discard_pile
    /\ card_to_color = load(file).card_to_color
    /\ op = "load"
    /\ arg = <<>>
    /\ err = "ok"
    /\ pre = load(file)
    /\ state_file = NoFile      \* files play no part in the calls on the object
    /\ save_file = NoFile
    /\ out = <<>>
    /\ before = [state_file |-> NoFile, save_file |-> NoFile]
    /\ checkpoint = <<>>

\* the default empty state: Decks.load of a missing file
Init == Loaded(NoFile)

\* the object loaded from any snapshot
InitLoaded == \E file \in Snapshots : Loaded(file)

Draw ==
    \E card \in Cards :
        LET r == draw(Cur, card)
        IN  /\ NumCards(r.decks) <= MaxCards \/ NumCards(r.decks) <= NumCards(Cur)
            /\ Call("draw", <<card>>, r)

ReshuffleDiscard == Call("reshuffle_discard", <<>>, reshuffle_discard(Cur))

RemoveDiscard ==
    \E card \in Cards : Call("remove_discard", <<card>>, remove_discard(Cur, card))

MarkCard ==
    \E card \in MarkCards, color \in Colors :
        Call("mark_card", <<card, color>>, mark_card(Cur, card, color))

UnmarkCard ==
    \E card \in MarkCards : Call("unmark_card", <<card>>, unmark_card(Cur, card))

Next ==
    \/ Draw
    \/ ReshuffleDiscard
    \/ RemoveDiscard
    \/ MarkCard
    \/ UnmarkCard

\* calls on the object that starts in the default empty state
Spec == Init /\ [][Next]_vars

\* calls on an object loaded from an arbitrary snapshot
SpecLoaded == InitLoaded /\ [][Next]_vars

----------------------------------------------------------------------------
(* Decks.save, Decks.print and the commands of the command line *)

\* a save that leaves out the fields that are empty
save_sparse(d) ==
    File(SnapshotObj({"infection"}
                        \cup (IF d.discard_pile = <<>> THEN {} ELSE {"discard"})
                        \cup (IF d.card_to_color = EmptyDict THEN {} ELSE {"card_to_color"}),
                     d.infection_deck, d.discard_pile, d.card_to_color))

\* a save that writes the discard pile under the attribute's name
save_renamed(d) ==
    File([k \in {"infection", "discard_pile", "card_to_color"} |->
            CASE k = "infection" -> d.infection_deck
              [] k = "discard_pile" -> d.discard_pile
              [] OTHER -> d.card_to_color])

\* Decks.save: the file written, a JSON object with the three fields
save(d) ==
    File(SnapshotObj(SnapshotKeys, d.infection_deck, d.discard_pile, d.card_to_color))

\* the in-memory object of a command that could not load one
NoObject == Decks(<<>>, <<>>, EmptyDict)

\* Decks.load with its failure: json.load raises on text that is no JSON
load_file(file) ==
    IF file.exists /\ file.malformed
    THEN Raise(NoObject, "JSONDecodeError")
    ELSE Ok(load(file))

\* a compare that puts the smaller count first
compare_ascending(item1, item2) ==
    IF item1[1] < item2[1] THEN -1
    ELSE IF item2[1] < item1[1] THEN 1
    ELSE IF StrLess(item2[2], item1[2]) THEN 1
    ELSE IF StrLess(item1[2], item2[2]) THEN -1
    ELSE 0

\* Decks.compare on (count, name) pairs
compare(item1, item2) ==
    IF item1[1] > item2[1] THEN -1
    ELSE IF item2[1] > item1[1] THEN 1
    ELSE IF StrLess(item2[2], item1[2]) THEN 1
    ELSE IF StrLess(item1[2], item2[2]) THEN -1
    ELSE 0

\* list.sort(key=cmp_to_key(compare)): stable, x goes behind what is not greater
RECURSIVE InsertByCompare(_, _)
InsertByCompare(lis, x) ==
    IF lis = <<>> THEN <<x>>
    ELSE IF compare(x, Head(lis)) < 0 THEN <<x>> \o lis
    ELSE <<Head(lis)>> \o InsertByCompare(Tail(lis), x)

RECURSIVE SortByCompareFrom(_, _)
SortByCompareFrom(acc, lis) ==
    IF lis = <<>> THEN acc
    ELSE SortByCompareFrom(InsertByCompare(acc, Head(lis)), Tail(lis))

SortByCompare(lis) == SortByCompareFrom(<<>>, lis)

\* card_counts[card] = card_counts.get(card, 0) + 1, on a dict kept as the
\* sequence of its (key, value) items in insertion order
CountsAdd(counts, card) ==
    IF \E i \in 1..Len(counts) : counts[i][1] = card
    THEN [i \in 1..Len(counts) |->
            IF counts[i][1] = card THEN <<card, counts[i][2] + 1>> ELSE counts[i]]
    ELSE Append(counts, <<card, 1>>)

\* [(v, k) for k, v in card_counts.items()], sorted
card_tuples(counts) ==
    SortByCompare([i \in 1..Len(counts) |-> <<counts[i][2], counts[i][1]>>])

\* Decks._format_name: the name, on its colour when it has one
format_name(d, card) ==
    IF card \in DOMAIN d.card_to_color
    THEN [name |-> card, on_color |-> <<d.card_to_color[card]>>]
    ELSE [name |-> card, on_color |-> <<>>]

\* the line "x{count} {name}"
Repr(d, tuple) == [count |-> tuple[1], text |-> format_name(d, tuple[2])]

\* the loop of Decks._print_formatting
RECURSIVE PrintLoop(_, _, _, _)
PrintLoop(d, counts, reprs, lis) ==
    IF lis = <<>> THEN reprs
    ELSE LET counted == CountsAdd(counts, Head(lis))
             tuples == card_tuples(counted)
         IN  PrintLoop(d, counted, [i \in 1..Len(tuples) |-> Repr(d, tuples[i])], Tail(lis))

\* Decks._print_formatting
print_formatting(d, lis) == PrintLoop(d, <<>>, <<>>, lis)

\* the blocks printed for the decks from position i on; empty decks are skipped
RECURSIVE PrintDecks(_, _)
PrintDecks(d, i) ==
    IF i > Len(d.infection_deck) THEN <<>>
    ELSE IF Len(d.infection_deck[i]) = 0 THEN PrintDecks(d, i + 1)
    ELSE <<[label |-> "deck", number |-> i, size |-> Len(d.infection_deck[i]),
            names |-> print_formatting(d, d.infection_deck[i])]>>
         \o PrintDecks(d, i + 1)

\* Decks.print: a block for each non-empty deck, then the discard block
print(d) ==
    PrintDecks(d, 1)
    \o <<[label |-> "discard", number |-> 0, size |-> Len(d.discard_pile),
          names |-> print_formatting(d, d.discard_pile)]>>

\* raw card arguments, and card.replace("_", " ").strip().lower() on them
CmdCards == {"Atlanta", "epidemic"}

Normalize(raw) == CASE raw = "Atlanta" -> "atlanta" [] OTHER -> raw

\* values of --color, and color.lower() on them
CmdColors == {"red", "none", "None"}

Lower(color) == CASE color = "None" -> "none" [] OTHER -> color

\* for card in cards: decks.draw(card), until a call raises
RECURSIVE draw_each(_, _)
draw_each(r, cards) ==
    IF cards = <<>> \/ r.err # "ok" THEN r
    ELSE draw_each(draw(r.decks, Normalize(Head(cards))), Tail(cards))

\* for card in cards: decks.remove_discard(card)
RECURSIVE remove_each(_, _)
remove_each(r, cards) ==
    IF cards = <<>> \/ r.err # "ok" THEN r
    ELSE remove_each(remove_discard(r.decks, Normalize(Head(cards))), Tail(cards))

\* a mark loop that unmarks on the literal value "none" only
RECURSIVE mark_each_literal(_, _, _)
mark_each_literal(r, color, cards) ==
    IF cards = <<>> \/ r.err # "ok" THEN r
    ELSE mark_each_literal(IF color = "none"
                           THEN unmark_card(r.decks, Normalize(Head(cards)))
                           ELSE mark_card(r.decks, Normalize(Head(cards)), color),
                           color, Tail(cards))

\* the loop of mark: unmark_card when color.lower() == "none", else mark_card
RECURSIVE mark_each(_, _, _)
mark_each(r, color, cards) ==
    IF cards = <<>> \/ r.err # "ok" THEN r
    ELSE mark_each(IF Lower(color) = "none"
                   THEN unmark_card(r.decks, Normalize(Head(cards)))
                   ELSE mark_card(r.decks, Normalize(Head(cards)), color),
                   color, Tail(cards))

\* a command that raised: nothing is written, nothing is printed
Abort(loaded, r, sf, vf) ==
    [loaded |-> loaded, decks |-> r.decks, err |-> r.err,
     state_file |-> sf, save_file |-> vf, out |-> <<>>]

\* a command that ran to its end: the files as written, and decks.print()
Done(loaded, d, sf, vf) ==
    [loaded |-> loaded, decks |-> d, err |-> "ok",
     state_file |-> sf, save_file |-> vf, out |-> print(d)]

\* a command that writes the working snapshot whether its calls raised or not
Mutation_save_always(sf, vf, l, r) ==
    IF l.err # "ok" THEN Abort(NoObject, l, sf, vf)
    ELSE IF r.err # "ok" THEN Abort(l.decks, r, save(r.decks), vf)
    ELSE Done(l.decks, r.decks, save(r.decks), vf)

\* load, mutate, save, print: l is the load and r the calls made on its object
Mutation(sf, vf, l, r) ==
    IF l.err # "ok" THEN Abort(NoObject, l, sf, vf)
    ELSE IF r.err # "ok" THEN Abort(l.decks, r, sf, vf)
    ELSE Done(l.decks, r.decks, save(r.decks), vf)

\* the print command
print_cmd(sf, vf) ==
    LET l == load_file(sf)
    IN  IF l.err # "ok" THEN Abort(NoObject, l, sf, vf) ELSE Done(l.decks, l.decks, sf, vf)

\* the draw_card command
draw_card_cmd(sf, vf, cards) ==
    Mutation(sf, vf, load_file(sf), draw_each(load_file(sf), cards))

\* the remove_discard command
remove_discard_cmd(sf, vf, cards) ==
    Mutation(sf, vf, load_file(sf), remove_each(load_file(sf), cards))

\* the shuffle command
shuffle_cmd(sf, vf) ==
    LET l == load_file(sf)
    IN  Mutation(sf, vf, l, IF l.err = "ok" THEN reshuffle_discard(l.decks) ELSE l)

\* the mark command
mark_cmd(sf, vf, color, cards) ==
    Mutation(sf, vf, load_file(sf), mark_each(load_file(sf), color, cards))

\* the save command: the working snapshot is loaded and written to the save file
save_cmd(sf, vf) ==
    LET l == load_file(sf)
    IN  IF l.err # "ok" THEN Abort(NoObject, l, sf, vf)
        ELSE Done(l.decks, l.decks, sf, save(l.decks))

\* a load command that keeps the colours of the working snapshot
load_cmd_merge(sf, vf) ==
    LET l == load_file(vf)
        w == load_file(sf)
    IN  IF l.err # "ok" THEN Abort(NoObject, l, sf, vf)
        ELSE IF w.err # "ok" THEN Abort(NoObject, w, sf, vf)
        ELSE LET d == Decks(l.decks.infection_deck, l.decks.discard_pile,
                            w.decks.card_to_color)
             IN  Done(l.decks, d, save(d), vf)

\* a load command that keeps the working snapshot when there is no save file
load_cmd_keep(sf, vf) ==
    LET l == load_file(IF vf.exists THEN vf ELSE sf)
    IN  IF l.err # "ok" THEN Abort(NoObject, l, sf, vf)
        ELSE Done(l.decks, l.decks, IF vf.exists THEN save(l.decks) ELSE sf, vf)

\* the load command: the save file is loaded and written to the working snapshot
load_cmd(sf, vf) ==
    LET l == load_file(vf)
    IN  IF l.err # "ok" THEN Abort(NoObject, l, sf, vf)
        ELSE Done(l.decks, l.decks, save(l.decks), vf)

----------------------------------------------------------------------------
(* The state machine of the command line: two files and the commands run *)

\* the snapshot of one deck, one discard and one colour, with the fields in keys
SampleFile(keys) ==
    File(SnapshotObj(keys, <<<<"atlanta">>>>, <<"epidemic">>, [c \in {"atlanta"} |-> "red"]))

\* the files a run starts with: none, no JSON, or a snapshot lacking any fields
CmdFiles == {NoFile, BadFile} \cup {SampleFile(keys) : keys \in SUBSET SnapshotKeys}

\* the command ends with result r; the object it loaded, the object it held
\* at its end, its outcome and the files are recorded
Cmd(name, args, r) ==
    /\ infection_deck' = r.decks.infection_deck
    /\ discard_pile' = r.decks.discard_pile
    /\ card_to_color' = r.decks.card_to_color
    /\ op' = name
    /\ arg' = args
    /\ err' = r.err
    /\ pre' = r.loaded
    /\ state_file' = r.state_file
    /\ save_file' = r.save_file
    /\ out' = r.out
    /\ before' = [state_file |-> state_file, save_file |-> save_file]
    /\ checkpoint' = IF name = "save" /\ r.err = "ok" THEN <<r.loaded>> ELSE checkpoint

\* nothing has run yet on the files sf and vf
Started(sf, vf) ==
    /\ state_file = sf
    /\ save_file = vf
    /\ infection_deck = NoObject.infection_deck
    /\ discard_pile = NoObject.discard_pile
    /\ card_to_color = NoObject.card_to_color
    /\ op = "start"
    /\ arg = <<>>
    /\ err = "ok"
    /\ pre = NoObject
    /\ out = <<>>
    /\ before = [state_file |-> sf, save_file |-> vf]
    /\ checkpoint = <<>>

InitCli == \E sf \in CmdFiles, vf \in CmdFiles : Started(sf, vf)

\* a working snapshot whose discard pile is any sequence of the summary's cards
InitPrint ==
    \E lis \in SeqsUpTo(PrintCards, MaxPrintLen) :
        Started(File(SnapshotObj({"discard"}, <<>>, lis, EmptyDict)), NoFile)

\* cards that get marked on the command line
CmdMarkCards == {"Atlanta"}

PrintCmd ==
    \E r \in {print_cmd(state_file, save_file)} : Cmd("print", <<>>, r)

DrawCardCmd ==
    \E cards \in SeqsUpTo(CmdCards, MaxArgs) :
        \E r \in {draw_card_cmd(state_file, save_file, cards)} :
            /\ NumCards(r.decks) <= MaxCmdCards \/ NumCards(r.decks) <= NumCards(r.loaded)
            /\ Cmd("draw_card", <<cards>>, r)

RemoveDiscardCmd ==
    \E cards \in SeqsUpTo(CmdCards, MaxArgs) :
        \E r \in {remove_discard_cmd(state_file, save_file, cards)} :
            Cmd("remove_discard", <<cards>>, r)

ShuffleCmd ==
    \E r \in {shuffle_cmd(state_file, save_file)} : Cmd("shuffle", <<>>, r)

MarkCmd ==
    \E color \in CmdColors, cards \in SeqsUpTo(CmdMarkCards, MaxArgs) :
        \E r \in {mark_cmd(state_file, save_file, color, cards)} :
            Cmd("mark", <<cards, color>>, r)

SaveCmd ==
    \E r \in {save_cmd(state_file, save_file)} : Cmd("save", <<>>, r)

LoadCmd ==
    \E r \in {load_cmd(state_file, save_file)} : Cmd("load", <<>>, r)

NextCli ==
    \/ PrintCmd
    \/ DrawCardCmd
    \/ RemoveDiscardCmd
    \/ ShuffleCmd
    \/ MarkCmd
    \/ SaveCmd
    \/ LoadCmd

\* commands run one after the other on the two files
SpecCli == InitCli /\ [][NextCli]_vars

\* the print command on any discard pile
SpecPrint == InitPrint /\ [][PrintCmd]_vars

----------------------------------------------------------------------------
(* Vocabulary of the properties *)

\* number of occurrences of x in lis
Count(lis, x) == Cardinality({i \in 1..Len(lis) : lis[i] = x})

\* lis is in ascending order of card identifiers
IsSorted(lis) == \A i \in 1..(Len(lis) - 1) : ~StrLess(lis[i+1], lis[i])

\* lis with the element at position i taken out, the others in their order
Without(lis, i) == [k \in 1..(Len(lis) - 1) |-> IF k < i THEN lis[k] ELSE lis[k+1]]

\* the last call was a draw that completed
Drew == op = "draw" /\ err = "ok"

\* the card of the last call
Card == arg[1]

\* the topmost deck before the last call
PreTop == pre.infection_deck[1]

----------------------------------------------------------------------------
(* C1..C10 *)

\* C1: after a completed draw(c), discard_pile holds c exactly once more than
\* before, every other card as often as before, and is sorted ascending,
\* whether or not c was in the topmost deck.
C1_DrawDiscards ==
    Drew =>
        /\ Count(discard_pile, Card) = Count(pre.discard_pile, Card) + 1
        /\ \A c \in Cards \ {Card} : Count(discard_pile, c) = Count(pre.discard_pile, c)
        /\ IsSorted(discard_pile)

\* a draw of a card that was not in the topmost deck, onto an unsorted pile
C1_Witness ==
    /\ Drew
    /\ ~Contains(PreTop, Card)
    /\ ~IsSorted(pre.discard_pile)
    /\ Len(discard_pile) = 3

\* C2: a completed draw(card) removes exactly the first occurrence of card
\* from the topmost deck, keeping the order of the rest, or leaves
\* infection_deck untouched when card is not in the topmost deck; the decks
\* below the topmost one keep their contents and order.
C2_DrawTouchesTopOnly ==
    Drew =>
        IF \E i \in 1..Len(PreTop) : PreTop[i] = Card
        THEN \E i \in 1..Len(PreTop) :
                /\ PreTop[i] = Card
                /\ \A j \in 1..(i-1) : PreTop[j] # Card
                /\ \/ /\ Len(PreTop) > 1
                      /\ Len(infection_deck) = Len(pre.infection_deck)
                      /\ infection_deck[1] = Without(PreTop, i)
                      /\ Tail(infection_deck) = Tail(pre.infection_deck)
                   \/ /\ Len(PreTop) = 1
                      /\ infection_deck = Tail(pre.infection_deck)
        ELSE infection_deck = pre.infection_deck

\* a draw of a card that occurs twice in the topmost deck, around another card
C2_Witness ==
    /\ Drew
    /\ Len(PreTop) = 3
    /\ PreTop[1] = Card /\ PreTop[2] # Card /\ PreTop[3] = Card
    /\ Len(pre.infection_deck) = 2

\* C3: a completed draw that takes the last card of the topmost deck lowers
\* the number of decks by exactly one and makes the second deck the topmost;
\* every other completed draw leaves the number of decks unchanged.
C3_DrawPopsEmptiedDeck ==
    Drew =>
        IF PreTop = <<Card>>
        THEN /\ Len(infection_deck) = Len(pre.infection_deck) - 1
             /\ Len(pre.infection_deck) >= 2 => infection_deck[1] = pre.infection_deck[2]
        ELSE Len(infection_deck) = Len(pre.infection_deck)

\* a draw that emptied the topmost deck, above a deck that holds cards
C3_Witness ==
    /\ Drew
    /\ PreTop = <<Card>>
    /\ Len(pre.infection_deck) >= 2
    /\ Len(pre.infection_deck[2]) = 2

\* C4: draw never fails: whatever the decks, also when there is no deck at
\* all, the call completes and the card is in discard_pile.
C4_DrawNeverFails ==
    op = "draw" => (err = "ok" /\ Contains(discard_pile, Card))

\* some deck that is not the last one is empty
EmptyDeckAbove == \E i \in 1..(Len(infection_deck) - 1) : infection_deck[i] = <<>>

\* C5 as stated: an empty deck is an element of infection_deck only in the
\* initial state [[]], before any draw.
C5_NoEmptyDeckAfterDraw ==
    (\E i \in 1..Len(infection_deck) : infection_deck[i] = <<>>) =>
        (infection_deck = <<<<>>>> /\ discard_pile = <<>> /\ op # "draw")

\* C5, amended: the only empty deck infection_deck ever holds is its last
\* element; every deck above the last one is non-empty.
C5_NoEmptyDeckAboveLast == ~EmptyDeckAbove

\* a draw emptied the topmost deck and the empty last deck is still there
C5_Witness ==
    /\ Drew
    /\ PreTop = <<Card>>
    /\ Len(infection_deck) >= 2
    /\ infection_deck[Len(infection_deck)] = <<>>

\* C6: discard_pile is sorted ascending in every state reached from the
\* default empty state.
C6_DiscardSorted == IsSorted(discard_pile)

\* a draw of a card smaller than the last card of the pile
C6_Witness ==
    /\ Drew
    /\ Len(pre.discard_pile) >= 2
    /\ StrLess(Card, pre.discard_pile[1])
    /\ StrLess(pre.discard_pile[1], pre.discard_pile[2])

\* the default empty state
DefaultDecks == Decks(<<<<>>>>, <<>>, EmptyDict)

\* C7 as stated: from the default state draw("epidemic") leaves no deck, and
\* the reshuffle that follows leaves the single deck ["epidemic"].
C7_ScenarioAsStated ==
    /\ (op = "draw" /\ arg = <<"epidemic">> /\ pre = DefaultDecks) =>
            (err = "ok" /\ discard_pile = <<"epidemic">> /\ infection_deck = <<>>)
    /\ (op = "reshuffle_discard" /\ pre = draw(DefaultDecks, "epidemic").decks) =>
            (infection_deck = <<<<"epidemic">>>> /\ discard_pile = <<>>)

\* C7, amended: from the default state draw("epidemic") gives discard
\* ["epidemic"] and keeps the decks [[]]; the reshuffle that follows gives
\* the decks [["epidemic"], []] and an empty discard.
C7_Scenario ==
    /\ (op = "draw" /\ arg = <<"epidemic">> /\ pre = DefaultDecks) =>
            (err = "ok" /\ discard_pile = <<"epidemic">> /\ infection_deck = <<<<>>>>)
    /\ (op = "reshuffle_discard" /\ pre = Decks(<<<<>>>>, <<"epidemic">>, EmptyDict)) =>
            (err = "ok" /\ infection_deck = <<<<"epidemic">>, <<>>>> /\ discard_pile = <<>>)

\* the reshuffle of the scenario has been made
C7_Witness ==
    /\ op = "reshuffle_discard"
    /\ pre = Decks(<<<<>>>>, <<"epidemic">>, EmptyDict)
    /\ discard_pile = <<>>

\* C8: reshuffle_discard on a non-empty pile puts one new deck, the pile in
\* its current order, in front of the unchanged decks and empties the pile;
\* on an empty pile it changes nothing.
C8_ReshuffleMovesPileOnTop ==
    op = "reshuffle_discard" =>
        /\ err = "ok"
        /\ IF pre.discard_pile # <<>>
           THEN /\ Len(infection_deck) = Len(pre.infection_deck) + 1
                /\ infection_deck[1] = pre.discard_pile
                /\ \A i \in 1..Len(pre.infection_deck) :
                        infection_deck[i+1] = pre.infection_deck[i]
                /\ discard_pile = <<>>
           ELSE /\ infection_deck = pre.infection_deck
                /\ discard_pile = <<>>

\* a reshuffle of an unsorted pile onto a deck that holds a card
C8_Witness ==
    /\ op = "reshuffle_discard"
    /\ Len(pre.discard_pile) = 2
    /\ ~IsSorted(pre.discard_pile)
    /\ Len(pre.infection_deck) >= 1
    /\ Len(pre.infection_deck[1]) = 1

\* C9: reshuffle_discard is idempotent: from every state, two calls in a row
\* give the state that one call gives.
C9_ReshuffleIdempotent ==
    reshuffle_discard(reshuffle_discard(Cur).decks) = reshuffle_discard(Cur)

\* a reshuffle has just moved a non-empty pile
C9_Witness ==
    /\ op = "reshuffle_discard"
    /\ pre.discard_pile # <<>>
    /\ infection_deck[1] = pre.discard_pile
    /\ Len(infection_deck) = 3

\* C10: remove_discard(card) takes exactly one occurrence of card out of
\* discard_pile when there is one, keeping the other entries and their order,
\* and otherwise completes with discard_pile unchanged; infection_deck is
\* unchanged either way.
C10_RemoveDiscardFrame ==
    op = "remove_discard" =>
        /\ err = "ok"
        /\ infection_deck = pre.infection_deck
        /\ IF \E i \in 1..Len(pre.discard_pile) : pre.discard_pile[i] = Card
           THEN \E i \in 1..Len(pre.discard_pile) :
                    /\ pre.discard_pile[i] = Card
                    /\ discard_pile = Without(pre.discard_pile, i)
           ELSE discard_pile = pre.discard_pile

\* a removal of a card the pile held twice, with a card in the topmost deck
C10_Witness ==
    /\ op = "remove_discard"
    /\ Count(pre.discard_pile, Card) = 2
    /\ Len(discard_pile) = 1
    /\ Len(infection_deck) >= 1
    /\ Len(infection_deck[1]) = 1

----------------------------------------------------------------------------
(* C11..C20 *)

\* C11: unmark_card(card) completes and removes the annotation exactly when
\* card has one, and raises KeyError otherwise; mark_card never fails and
\* sets (or replaces) the colour, after which one unmark_card succeeds and a
\* second one fails.
C11_UnmarkFailsIffUnmarked ==
    /\ op = "unmark_card" =>
        IF Card \in DOMAIN pre.card_to_color
        THEN /\ err = "ok"
             /\ DOMAIN card_to_color = (DOMAIN pre.card_to_color) \ {Card}
             /\ \A c \in DOMAIN card_to_color : card_to_color[c] = pre.card_to_color[c]
        ELSE /\ err = "KeyError"
             /\ card_to_color = pre.card_to_color
    /\ op = "mark_card" =>
        /\ err = "ok"
        /\ DOMAIN card_to_color = (DOMAIN pre.card_to_color) \cup {Card}
        /\ card_to_color[Card] = arg[2]
        /\ \A c \in (DOMAIN card_to_color) \ {Card} : card_to_color[c] = pre.card_to_color[c]
        /\ unmark_card(Cur, Card).err = "ok"
        /\ unmark_card(unmark_card(Cur, Card).decks, Card).err = "KeyError"

\* an unmark of a card without annotation, while another card has one
C11_Witness ==
    /\ op = "unmark_card"
    /\ err = "KeyError"
    /\ Card \notin DOMAIN card_to_color
    /\ DOMAIN card_to_color # {}

\* C18: draw, reshuffle_discard and remove_discard leave card_to_color
\* unchanged; mark_card and unmark_card leave infection_deck and discard_pile
\* unchanged, and whether they fail does not depend on where the card is.
C18_ColorsIndependentOfPlacement ==
    /\ op \in {"draw", "reshuffle_discard", "remove_discard"} =>
            card_to_color = pre.card_to_color
    /\ op \in {"mark_card", "unmark_card"} =>
            /\ infection_deck = pre.infection_deck
            /\ discard_pile = pre.discard_pile
    /\ op = "mark_card" => err = "ok"
    /\ op = "unmark_card" => (err = "ok" <=> Card \in DOMAIN pre.card_to_color)

\* a draw took an annotated card out of the topmost deck
C18_Witness ==
    /\ Drew
    /\ Contains(PreTop, Card)
    /\ Card \in DOMAIN card_to_color

\* C19: from the default empty state, infection_deck always has at least one
\* deck, its last deck is empty and every other deck is not, so that the
\* topmost deck draw reads always exists.
C19_EmptyDeckStaysLast ==
    /\ Len(infection_deck) >= 1
    /\ infection_deck[Len(infection_deck)] = <<>>
    /\ \A i \in 1..(Len(infection_deck) - 1) : infection_deck[i] # <<>>
    /\ err # "IndexError"

\* a draw made with two decks of cards above the empty last deck
C19_Witness ==
    /\ Drew
    /\ Len(pre.infection_deck) = 3
    /\ Len(infection_deck) = 3

\* the cards named by the last command, as given
CmdArgCards == arg[1]

\* the commands that end by writing the working snapshot
Writers == {"draw_card", "remove_discard", "shuffle", "mark", "load"}

\* the file the last command loaded
Source == IF op = "load" THEN before.save_file ELSE before.state_file

\* C12: a command that fails leaves the working snapshot exactly as it was:
\* a malformed snapshot on load, or a mark with colour "none" that reaches a
\* card without annotation after unmarking earlier cards in memory.
C12_FailureWritesNothing ==
    err # "ok" =>
        /\ state_file = before.state_file
        /\ save_file = before.save_file

\* a mark command unmarked its first card in memory and failed on the second
C12_Witness ==
    /\ op = "mark"
    /\ err = "KeyError"
    /\ Len(CmdArgCards) = 2
    /\ DOMAIN pre.card_to_color # {}
    /\ card_to_color = EmptyDict
    /\ load(state_file) = pre

\* C13: what save writes, load reads back as the same object: same decks in
\* the same order, same discard pile, same colours.
C13_SaveLoadRoundTrip ==
    /\ load_file(save(Cur)) = Ok(Cur)
    /\ (op \in Writers /\ err = "ok") => load_file(state_file) = Ok(Cur)
    /\ (op = "save" /\ err = "ok") => load_file(save_file) = Ok(Cur)

\* a command loaded two decks of cards and a colour that an earlier command
\* had saved
C13_Witness ==
    /\ op \notin {"start", "load"}
    /\ err = "ok"
    /\ before.state_file = save(pre)
    /\ Len(pre.infection_deck) = 2
    /\ pre.infection_deck[1] # <<>>
    /\ pre.infection_deck[2] # <<>>
    /\ pre.card_to_color # EmptyDict

\* C14: load takes each field present in the snapshot as stored and defaults
\* each absent one on its own (a missing file has none); every file a
\* command writes holds all three fields.
C14_FieldsDefaultedAndWritten ==
    /\ (op # "start" /\ err # "JSONDecodeError") =>
        /\ pre.infection_deck =
                IF Source.exists /\ "infection" \in DOMAIN Source.obj
                THEN Source.obj["infection"] ELSE <<<<>>>>
        /\ pre.discard_pile =
                IF Source.exists /\ "discard" \in DOMAIN Source.obj
                THEN Source.obj["discard"] ELSE <<>>
        /\ pre.card_to_color =
                IF Source.exists /\ "card_to_color" \in DOMAIN Source.obj
                THEN Source.obj["card_to_color"] ELSE EmptyDict
    /\ (op \in Writers /\ err = "ok") =>
        (state_file.exists /\ ~state_file.malformed /\ DOMAIN state_file.obj = SnapshotKeys)
    /\ (op = "save" /\ err = "ok") =>
        (save_file.exists /\ ~save_file.malformed /\ DOMAIN save_file.obj = SnapshotKeys)

\* a command loaded a snapshot that held the discard field only and wrote
\* all three fields
C14_Witness ==
    /\ op = "mark"
    /\ err = "ok"
    /\ before.state_file.exists
    /\ DOMAIN before.state_file.obj = {"discard"}
    /\ pre.discard_pile = <<"epidemic">>
    /\ DOMAIN state_file.obj = SnapshotKeys

\* C15: the save command makes the save file hold the working state and
\* leaves the working snapshot as it is; the load command makes the working
\* snapshot hold the save file's state and leaves the save file as it is; no
\* other command touches the save file. Hence a load after a save restores
\* the working state of the time of the save, whatever ran in between.
C15_CheckpointAndRestore ==
    /\ (op = "save" /\ err = "ok") =>
            (load(save_file) = load(before.state_file) /\ state_file = before.state_file)
    /\ (op = "load" /\ err = "ok") =>
            (load(state_file) = load(before.save_file) /\ save_file = before.save_file)
    /\ op \in {"print", "draw_card", "remove_discard", "shuffle", "mark"} =>
            save_file = before.save_file
    /\ checkpoint # <<>> => load(save_file) = checkpoint[1]
    /\ (op = "load" /\ err = "ok" /\ checkpoint # <<>>) =>
            (Cur = checkpoint[1] /\ load(state_file) = checkpoint[1])

\* a load restored the state of an earlier save over a working snapshot whose
\* cards and colours had changed since
C15_Witness ==
    /\ op = "load"
    /\ err = "ok"
    /\ checkpoint # <<>>
    /\ before.state_file.exists /\ ~before.state_file.malformed
    /\ load(before.state_file).card_to_color # checkpoint[1].card_to_color
    /\ load(before.state_file).discard_pile # checkpoint[1].discard_pile
    /\ load(state_file) = checkpoint[1]

\* the lines of the discard block the last command printed
DiscardNames == out[Len(out)].names

\* the sequence of the example
ExampleCards == <<"b", "a", "b", "c", "a", "a">>

\* C16: the summary of a card sequence lists each distinct identifier once
\* with its number of occurrences, by descending count and then ascending
\* identifier; it is the same for the sorted sequence, empty for the empty
\* sequence, and [(3,"a"), (2,"b"), (1,"c")] for ["b","a","b","c","a","a"].
C16_GroupedSummary ==
    (op = "print" /\ err = "ok") =>
        LET lis == discard_pile
            names == DiscardNames
            ids == {c \in PrintCards : Count(lis, c) > 0}
        IN  /\ Len(names) = Cardinality(ids)
            /\ \A c \in ids : \E i \in 1..Len(names) :
                    names[i].text.name = c /\ names[i].count = Count(lis, c)
            /\ \A i, j \in 1..Len(names) :
                    i < j => \/ names[i].count > names[j].count
                             \/ /\ names[i].count = names[j].count
                                /\ StrLess(names[i].text.name, names[j].text.name)
            /\ names = print_formatting(Cur, ListSort(lis))
            /\ lis = <<>> => names = <<>>
            /\ lis = ExampleCards =>
                    /\ Len(names) = 3
                    /\ names[1].count = 3 /\ names[1].text.name = "a"
                    /\ names[2].count = 2 /\ names[2].text.name = "b"
                    /\ names[3].count = 1 /\ names[3].text.name = "c"

\* the example has been printed
C16_Witness ==
    /\ op = "print"
    /\ err = "ok"
    /\ discard_pile = ExampleCards
    /\ Len(DiscardNames) = 3

\* the mark command ran its loop on at least one card
Marked == op = "mark" /\ err # "JSONDecodeError" /\ CmdArgCards # <<>>

\* the cards of the last command, normalized
NormalCards == {Normalize(CmdArgCards[i]) : i \in 1..Len(CmdArgCards)}

\* every card of the command went through unmark_card
AllUnmarked ==
    /\ err \in {"ok", "KeyError"}
    /\ err = "ok" => \A c \in NormalCards : c \notin DOMAIN card_to_color
    /\ Normalize(CmdArgCards[1]) \notin DOMAIN pre.card_to_color => err = "KeyError"
    /\ \A c \in DOMAIN card_to_color :
            c \in DOMAIN pre.card_to_color /\ card_to_color[c] = pre.card_to_color[c]

\* every card of the command went through mark_card with the colour as given
AllMarked ==
    /\ err = "ok"
    /\ \A c \in NormalCards : c \in DOMAIN card_to_color /\ card_to_color[c] = arg[2]

\* C17 as stated: the mark command unmarks exactly when the colour is the
\* literal "none", and marks with any other value, "None" included.
C17_UnmarkOnLiteralNone ==
    Marked => IF arg[2] = "none" THEN AllUnmarked ELSE AllMarked

\* C17, amended: the mark command unmarks exactly when the colour is "none"
\* in any letter case, and marks with the value as given otherwise.
C17_UnmarkOnNoneAnyCase ==
    Marked => IF arg[2] \in {"none", "None"} THEN AllUnmarked ELSE AllMarked

\* mark with colour "None" removed the annotation of a card
C17_Witness ==
    /\ Marked
    /\ arg[2] = "None"
    /\ err = "ok"
    /\ Normalize(CmdArgCards[1]) \in DOMAIN pre.card_to_color
    /\ Normalize(CmdArgCards[1]) \notin DOMAIN card_to_color
    /\ state_file = save(Cur)

\* the snapshot of the default empty state
DefaultFile ==
    File([k \in {"infection", "discard", "card_to_color"} |->
            CASE k = "infection" -> <<<<>>>>
              [] k = "discard" -> <<>>
              [] OTHER -> EmptyDict])

\* C20: without a save file the load command does not fail and overwrites
\* the working snapshot with the default empty state; without a working
\* snapshot the save command writes the default empty state to the save file
\* and creates no working snapshot.
C20_MissingFileGivesDefault ==
    /\ (op = "load" /\ ~before.save_file.exists) =>
            (err = "ok" /\ state_file = DefaultFile /\ ~save_file.exists)
    /\ (op = "save" /\ ~before.state_file.exists) =>
            (err = "ok" /\ save_file = DefaultFile /\ ~state_file.exists)

\* a load without a save file overwrote a working snapshot that held cards
C20_Witness ==
    /\ op = "load"
    /\ ~before.save_file.exists
    /\ before.state_file.exists /\ ~before.state_file.malformed
    /\ load(before.state_file).discard_pile # <<>>
    /\ load(before.state_file).card_to_color # EmptyDict
    /\ state_file = DefaultFile

====
